---- MODULE Spec2Model ----
(***************************************************************************)
(* Session-based authentication of remix-jokes                             *)
(* (app/utils/session.server.ts, app/utils/db.server.ts, routes/logout).   *)
(*                                                                         *)
(* The state is the User table, the cookie jar of every client, the        *)
(* register calls that are suspended between their two awaits, and the     *)
(* record of the operation that completed last.  JavaScript values are     *)
(* tagged records ([t |-> "string", s |-> ...], [t |-> "null"], ...), and  *)
(* URLs are sequences of one-character strings, so that the encoding done  *)
(* by URLSearchParams is computed and not assumed.                         *)
(***************************************************************************)
EXTENDS Integers, Sequences, FiniteSets, Bags, TLC

\* ---------------------------------------------------------------- bounds
MaxUsers == 2        \* rows the store creates in a run
NumClients == 1      \* browsers, each with its own cookie jar
MaxPending == 2      \* register calls suspended at the same time
MaxReloads == 2      \* hot reloads of the server modules in development
NumBrowsers == 2     \* browsers in the specification of arbitrary requests

Clients == 1..NumClients

Usernames == {"alice", "bob"}
Passwords == {"pw1", "pw2"}
Salts == {"salt1"}

\* ------------------------------------------------------ JavaScript values
Undefined == [t |-> "undefined"]
Null == [t |-> "null"]
Str(s) == [t |-> "string", s |-> s]
Num(n) == [t |-> "number", n |-> n]

\* `!v` of JavaScript for the values a session field can hold
Falsy(v) ==
    \/ v.t = "undefined"
    \/ v.t = "null"
    \/ (v.t = "string" /\ v.s = "")
    \/ (v.t = "number" /\ v.n = 0)

TypeofString(v) == v.t = "string"

\* ------------------------------------------------------------------ URLs
\* the paths requests and callers use: a plain one, and one with a space
\* and the characters that are reserved in a query string
Paths == {<<"/">>, <<"/", "a", " ", "?", "&", "=", "%">>}

LoginPath == <<"/", "l", "o", "g", "i", "n">>
RedirectToName == <<"r", "e", "d", "i", "r", "e", "c", "t", "T", "o">>

\* application/x-www-form-urlencoded serialisation of one character
EncodeChar(c) ==
    CASE c = "/" -> <<"%", "2", "F">>
      [] c = "&" -> <<"%", "2", "6">>
      [] c = "%" -> <<"%", "2", "5">>
      [] c = "=" -> <<"%", "3", "D">>
      [] c = "?" -> <<"%", "3", "F">>
      [] c = " " -> <<"+">>
      [] OTHER -> <<c>>

RECURSIVE EncodeString(_)
EncodeString(s) ==
    IF s = <<>> THEN <<>> ELSE EncodeChar(Head(s)) \o EncodeString(Tail(s))

\* `${new URLSearchParams([[name, value]])}`
URLSearchParamsToString(name, value) ==
    EncodeString(name) \o <<"=">> \o EncodeString(value)

\* ------------------------------------------------------- password hasher
BcryptRounds == 10

\* bcrypt.hash(password, 10): a fresh salt is drawn by the caller of this
\* operator; the digest is a function of salt, cost and password.
BcryptHash(password, rounds, salt) ==
    [salt |-> salt, rounds |-> rounds, digest |-> <<salt, rounds, password>>]

\* bcrypt.compare(password, hash): recompute with the salt and cost stored
\* in the hash and compare the digests.
BcryptCompare(password, hash) ==
    BcryptHash(password, hash.rounds, hash.salt).digest = hash.digest

\* ------------------------------------------------------------- User store
\* a row of the User table
UserRow(id, username, passwordHash) ==
    [t |-> "object", id |-> id, username |-> username, passwordHash |-> passwordHash]

\* the id the store gives to the n-th row it creates
NewId(n) == ToString(n)

\* db.user.findUnique({ where: { username } })
FindUniqueByUsername(rows, username) ==
    IF \E r \in rows : r.username = username
    THEN CHOOSE r \in rows : r.username = username
    ELSE Null

\* findUnique by id without the select: the whole row
FindUniqueById_noSelect(rows, id) ==
    IF \E r \in rows : r.id = id THEN CHOOSE r \in rows : r.id = id ELSE Null

\* db.user.findUnique({ select: { id: true, username: true }, where: { id } })
FindUniqueById(rows, id) ==
    IF \E r \in rows : r.id = id
    THEN LET r == CHOOSE r \in rows : r.id = id
         IN [t |-> "object", id |-> r.id, username |-> r.username]
    ELSE Null

\* the unique constraint of User.username, as db.user.create sees it
UniqueConstraintFails(rows, username) == \E r \in rows : r.username = username

\* ---------------------------------------------------- outcomes of a call
Return(v) == [kind |-> "return", val |-> v]
Throw(v) == [kind |-> "throw", val |-> v]
\* the promise an async function hands back when it is called without await
Promise(outcome) == [t |-> "promise", settled |-> outcome]
PrismaError(code) == [t |-> "error", code |-> code]
\* new Error(message)
JsError(message) == [t |-> "error", message |-> message]

\* --------------------------------------------------------- cookie storage
SessionSecret == "SESSION_SECRET"
CookieMaxAge == 2592000

NoCookie == [present |-> FALSE]
NoHeader == [set |-> FALSE]
EmptySession == {}

\* the value of the RJ_session cookie: a payload signed with the secret
SignedCookie(payload, secret) == [present |-> TRUE, payload |-> payload, sig |-> secret]

\* cookie.parse: the payload when the signature verifies, null otherwise
CookieParse(cookie) ==
    IF cookie.sig = SessionSecret THEN cookie.payload ELSE Null

\* storage.getSession(cookieHeader): `cookieHeader && parse(cookieHeader)`,
\* then a session over `data || {}`
GetSession(cookieHeader) ==
    LET data == IF cookieHeader.present THEN CookieParse(cookieHeader) ELSE Null
    IN IF Falsy(data) THEN EmptySession ELSE data.fields

SessionGet(session, key) ==
    IF \E f \in session : f[1] = key
    THEN (CHOOSE f \in session : f[1] = key)[2]
    ELSE Undefined

SessionSet(session, key, value) ==
    {f \in session : f[1] # key} \cup {<<key, value>>}

\* storage.commitSession(session): the Set-Cookie header carrying the data
CommitSession(session) ==
    [set |-> TRUE,
     cookie |-> SignedCookie([t |-> "object", fields |-> session], SessionSecret),
     maxAge |-> CookieMaxAge, expired |-> FALSE]

\* storage.destroySession(session): an empty value that expires at once
DestroySession(session) ==
    [set |-> TRUE,
     cookie |-> SignedCookie(Str(""), SessionSecret),
     maxAge |-> 0, expired |-> TRUE]

\* redirect(url, { headers: { "Set-Cookie": ... } })
Redirect(url, setCookie) ==
    [t |-> "response", status |-> 302, location |-> url, setCookie |-> setCookie]

\* a request of a client: its Cookie header and the path of its URL
Request(cookie, pathname) == [cookie |-> cookie, pathname |-> pathname]

\* db.user.create({ data: { passwordHash, username } }): the row gets a
\* fresh id; a username that is taken violates the unique constraint and
\* nothing is inserted.
DbUserCreate(rows, n, username, passwordHash) ==
    IF UniqueConstraintFails(rows, username)
    THEN [ok |-> FALSE, rows |-> rows, row |-> Null, error |-> PrismaError("P2002")]
    ELSE LET row == UserRow(NewId(n), username, passwordHash)
         IN [ok |-> TRUE, rows |-> rows \cup {row}, row |-> row, error |-> Null]

\* ------------------------------------------------------------ the module
\* register, after its first await: create the row and return the identity;
\* an error of the store propagates to the caller.
\* register that catches the error of the store and returns the identity
\* of the row that holds the username
RegisterCreate_swallow(rows, n, username, passwordHash) ==
    LET created == DbUserCreate(rows, n, username, passwordHash)
    IN IF created.ok
       THEN [rows |-> created.rows,
             outcome |-> Return([t |-> "object", id |-> created.row.id, username |-> username])]
       ELSE [rows |-> created.rows,
             outcome |-> Return([t |-> "object",
                                 id |-> FindUniqueByUsername(rows, username).id,
                                 username |-> username])]

\* register that overwrites the password of the row that holds the username
RegisterCreate_replace(rows, n, username, passwordHash) ==
    LET created == DbUserCreate(rows, n, username, passwordHash)
        held == FindUniqueByUsername(rows, username)
    IN IF created.ok
       THEN [rows |-> created.rows,
             outcome |-> Return([t |-> "object", id |-> created.row.id, username |-> username])]
       ELSE [rows |-> {r \in rows : r.username # username}
                          \cup {UserRow(held.id, username, passwordHash)},
             outcome |-> Return([t |-> "object", id |-> held.id, username |-> username])]

RegisterCreate(rows, n, username, passwordHash) ==
    LET created == DbUserCreate(rows, n, username, passwordHash)
    IN IF created.ok
       THEN [rows |-> created.rows,
             outcome |-> Return([t |-> "object", id |-> created.row.id, username |-> username])]
       ELSE [rows |-> created.rows, outcome |-> Throw(created.error)]

\* login with the password check inverted
login_invertedCheck(rows, username, password) ==
    LET user == FindUniqueByUsername(rows, username)
    IN IF Falsy(user) THEN Return(Null)
       ELSE IF BcryptCompare(password, user.passwordHash) THEN Return(Null)
       ELSE Return([t |-> "object", id |-> user.id, username |-> username])

\* login without the password check
login_noCompare(rows, username, password) ==
    LET user == FindUniqueByUsername(rows, username)
    IN IF Falsy(user) THEN Return(Null)
       ELSE Return([t |-> "object", id |-> user.id, username |-> username])

\* login that returns the username where the id belongs
login_usernameAsId(rows, username, password) ==
    LET user == FindUniqueByUsername(rows, username)
    IN IF Falsy(user) THEN Return(Null)
       ELSE IF ~BcryptCompare(password, user.passwordHash) THEN Return(Null)
       ELSE Return([t |-> "object", id |-> user.username, username |-> username])

\* login that also opens a session for the user it found
login_withSession(rows, username, password) ==
    LET user == FindUniqueByUsername(rows, username)
    IN IF Falsy(user) THEN Return(Null)
       ELSE IF ~BcryptCompare(password, user.passwordHash) THEN Return(Null)
       ELSE Return(Redirect(<<"/">>,
                CommitSession(SessionSet(EmptySession, "userId", Str(user.id)))))

login(rows, username, password) ==
    LET user == FindUniqueByUsername(rows, username)
    IN IF Falsy(user) THEN Return(Null)
       ELSE IF ~BcryptCompare(password, user.passwordHash) THEN Return(Null)
       ELSE Return([t |-> "object", id |-> user.id, username |-> username])

getUserSession(request) == GetSession(request.cookie)

\* getUserId that returns whatever truthy value the session holds
getUserId_noTypeCheck(request) ==
    LET userId == SessionGet(getUserSession(request), "userId")
    IN IF Falsy(userId) THEN Return(Null) ELSE Return(userId)

getUserId(request) ==
    LET userId == SessionGet(getUserSession(request), "userId")
    IN IF Falsy(userId) \/ ~TypeofString(userId) THEN Return(Null) ELSE Return(userId)

\* the redirectTo argument: given, or left to its default
Given(path) == [given |-> TRUE, path |-> path]
Omitted == [given |-> FALSE, path |-> <<>>]

\* requiredUserId that puts redirectTo into the query string as it is
requiredUserId_raw(request, redirectToArg) ==
    LET redirectTo == IF redirectToArg.given THEN redirectToArg.path ELSE request.pathname
        userId == SessionGet(getUserSession(request), "userId")
    IN IF Falsy(userId) \/ ~TypeofString(userId)
       THEN Throw(Redirect(LoginPath \o <<"?">> \o RedirectToName \o <<"=">> \o redirectTo, NoHeader))
       ELSE Return(userId)

\* requiredUserId that accepts whatever truthy value the session holds
requiredUserId_noTypeCheck(request, redirectToArg) ==
    LET redirectTo == IF redirectToArg.given THEN redirectToArg.path ELSE request.pathname
        userId == SessionGet(getUserSession(request), "userId")
    IN IF Falsy(userId)
       THEN Throw(Redirect(LoginPath \o <<"?">> \o URLSearchParamsToString(RedirectToName, redirectTo),
                           NoHeader))
       ELSE Return(userId)

requiredUserId(request, redirectToArg) ==
    LET redirectTo == IF redirectToArg.given THEN redirectToArg.path ELSE request.pathname
        userId == SessionGet(getUserSession(request), "userId")
    IN IF Falsy(userId) \/ ~TypeofString(userId)
       THEN Throw(Redirect(LoginPath \o <<"?">> \o URLSearchParamsToString(RedirectToName, redirectTo),
                           NoHeader))
       ELSE Return(userId)

\* createUserSession that stores the id under another key
createUserSession_wrongKey(userId, redirectTo) ==
    LET session == SessionSet(GetSession(NoCookie), "userID", Str(userId))
    IN Return(Redirect(redirectTo, CommitSession(session)))

createUserSession(userId, redirectTo) ==
    LET session == SessionSet(GetSession(NoCookie), "userId", Str(userId))
    IN Return(Redirect(redirectTo, CommitSession(session)))

\* logout that commits the session instead of destroying it
logout_commit(request) ==
    Return(Redirect(LoginPath, CommitSession(getUserSession(request))))

logout(request) ==
    Return(Redirect(LoginPath, DestroySession(getUserSession(request))))

\* getUser that treats a missing row as an anonymous request
getUser_null(rows, request) ==
    LET userId == getUserId(request).val
    IN IF ~TypeofString(userId) THEN Return(Null)
       ELSE LET user == FindUniqueById(rows, userId.s)
            IN IF Falsy(user) THEN Return(Null) ELSE Return(user)

getUser(rows, request) ==
    LET userId == getUserId(request).val
    IN IF ~TypeofString(userId) THEN Return(Null)
       ELSE LET user == FindUniqueById(rows, userId.s)
            IN IF Falsy(user) THEN Throw(Promise(logout(request))) ELSE Return(user)

\* ------------------------------------------------------ the logout route
\* action = ({ request }) => logout(request): the promise of logout
logoutAction(request) == Return(Promise(logout(request)))

\* a loader that logs out as the action does
logoutLoader_logout(request) == Return(Promise(logout(request)))

\* loader = async () => redirect("/login"): the request is not looked at
logoutLoader(request) == Return(Promise(Return(Redirect(LoginPath, NoHeader))))

\* ------------------------------------------------- framework and browser
\* What the framework sends for the outcome of a loader or action: a
\* Response that was returned or thrown is sent as it is; any other thrown
\* value is an error and becomes a 500 without the handler's headers; a
\* returned promise is awaited; returned data is for the caller to render.
RECURSIVE ResponseSent(_)
ResponseSent(outcome) ==
    IF outcome.val.t = "response" THEN outcome.val
    ELSE IF outcome.kind = "return" /\ outcome.val.t = "promise" THEN ResponseSent(outcome.val.settled)
    ELSE IF outcome.kind = "throw"
         THEN [t |-> "response", status |-> 500, location |-> <<>>, setCookie |-> NoHeader]
    ELSE [t |-> "response", status |-> 200, location |-> <<>>, setCookie |-> NoHeader]

\* the browser's cookie after a response: a Set-Cookie that has expired
\* removes the cookie, any other replaces it
ApplySetCookie(cookie, header) ==
    IF ~header.set THEN cookie
    ELSE IF header.expired THEN NoCookie
    ELSE header.cookie

\* ------------------------------------------------------------------ state
VARIABLES
    users,       \* the rows of the User table
    nextId,      \* the number of the next row the store creates
    jar,         \* jar[c]: the RJ_session cookie client c holds
    reg,         \* the bag of register calls suspended after bcrypt.hash
    last,        \* the call that completed last: its inputs and its outcome
    registered,  \* history: <<username, password, id>> of the register that made each row
    authIds,     \* history: the ids register and login have returned
    proc         \* the server process: its environment and its loaded modules

vars == <<users, nextId, jar, reg, last, registered, authIds, proc>>

NoArgs == [username |-> "", password |-> "", userId |-> "", redirectTo |-> Omitted]

Call(op, c, request, args, outcome) ==
    [op |-> op, client |-> c, request |-> request, args |-> args, outcome |-> outcome]

\* the ids a caller may hand to createUserSession: the ids the store gives
\* out (a row with that id may exist, be deleted, or not be created yet)
\* and the empty string
UserIdArgs == {NewId(n) : n \in 1..MaxUsers} \cup {""}

\* ------------------------------------------------------ the server process
\* a process that has evaluated no module yet; clients of the database are
\* numbered in the order of their creation, 0 stands for undefined
FreshProcess(nodeEnv, secret) ==
    [nodeEnv |-> nodeEnv, secret |-> secret, globalDb |-> 0, db |-> 0,
     created |-> 0, reloads |-> 0, session |-> "unloaded"]

\* db.server evaluated without looking at global.__db__
EvalDbModule_alwaysNew(p) ==
    IF p.nodeEnv = "production"
    THEN [p EXCEPT !.created = @ + 1, !.db = p.created + 1]
    ELSE [p EXCEPT !.created = @ + 1, !.globalDb = p.created + 1, !.db = p.created + 1]

\* one evaluation of db.server: production makes a client; development
\* makes one only when global.__db__ is undefined and exports the global
EvalDbModule(p) ==
    IF p.nodeEnv = "production"
    THEN [p EXCEPT !.created = @ + 1, !.db = p.created + 1]
    ELSE IF p.globalDb = 0
         THEN [p EXCEPT !.created = @ + 1, !.globalDb = p.created + 1, !.db = p.created + 1]
         ELSE [p EXCEPT !.db = p.globalDb]

\* session.server evaluated without the check of the secret
EvalSessionModule_noCheck(p) ==
    [EvalDbModule(p) EXCEPT !.session = "loaded"]

\* one evaluation of session.server: its import evaluates db.server, then
\* a SESSION_SECRET that is unset or empty throws and nothing is exported
EvalSessionModule(p) ==
    LET q == EvalDbModule(p)
    IN IF Falsy(q.secret)
       THEN [q EXCEPT !.session = "failed"]
       ELSE [q EXCEPT !.session = "loaded"]

\* a call of an exported function: the module is loaded, and the call
\* leaves the process as it is
Serving == proc.session = "loaded" /\ UNCHANGED proc

Init ==
    /\ proc = EvalSessionModule(FreshProcess("production", Str(SessionSecret)))
    /\ users = {}
    /\ nextId = 1
    /\ jar = [c \in Clients |-> NoCookie]
    /\ reg = EmptyBag
    /\ last = Call("none", 0, Request(NoCookie, <<"/">>), NoArgs, Return(Undefined))
    /\ registered = {}
    /\ authIds = {}

\* a response whose Set-Cookie reaches every client
Deliver_toAll(c, outcome) ==
    jar' = [b \in DOMAIN jar |-> ApplySetCookie(jar[b], ResponseSent(outcome).setCookie)]

\* the response for `outcome` reaches client c
Deliver(c, outcome) ==
    jar' = [jar EXCEPT ![c] = ApplySetCookie(@, ResponseSent(outcome).setCookie)]

\* register up to its first await: the password is hashed
RegisterHash(username, password, salt) ==
    /\ Serving
    /\ BagCardinality(reg) < MaxPending
    /\ nextId <= MaxUsers
    /\ reg' = reg (+) SetToBag({[username |-> username, password |-> password,
                                 passwordHash |-> BcryptHash(password, BcryptRounds, salt)]})
    /\ last' = Call("registerHash", 0, Request(NoCookie, <<"/">>), NoArgs, Return(Undefined))
    /\ UNCHANGED <<users, nextId, jar, registered, authIds>>

\* register from db.user.create to its return, for the suspended call r
Register(r) ==
    /\ Serving
    /\ BagIn(r, reg)
    /\ LET done == RegisterCreate(users, nextId, r.username, r.passwordHash)
       IN /\ done.outcome.kind = "return" => nextId <= MaxUsers
          /\ users' = done.rows
          /\ nextId' = IF done.rows # users THEN nextId + 1 ELSE nextId
          /\ last' = Call("register", 0, Request(NoCookie, <<"/">>),
                          [NoArgs EXCEPT !.username = r.username, !.password = r.password],
                          done.outcome)
          /\ registered' = IF done.outcome.kind = "return"
                           THEN registered \cup {<<r.username, r.password, done.outcome.val.id>>}
                           ELSE registered
          /\ authIds' = IF done.outcome.kind = "return"
                        THEN authIds \cup {done.outcome.val.id}
                        ELSE authIds
    /\ reg' = reg (-) SetToBag({r})
    /\ UNCHANGED jar

Login(c, username, password) ==
    LET outcome == login(users, username, password)
    IN /\ Serving
       /\ Deliver(c, outcome)
       /\ last' = Call("login", c, Request(jar[c], <<"/">>),
                       [NoArgs EXCEPT !.username = username, !.password = password], outcome)
       /\ authIds' = IF outcome.val.t = "object" THEN authIds \cup {outcome.val.id} ELSE authIds
       /\ UNCHANGED <<users, nextId, reg, registered>>

GetUserId(c) ==
    LET request == Request(jar[c], <<"/">>)
        outcome == getUserId(request)
    IN /\ Serving
       /\ Deliver(c, outcome)
       /\ last' = Call("getUserId", c, request, NoArgs, outcome)
       /\ UNCHANGED <<users, nextId, reg, registered, authIds>>

RequiredUserId(c, pathname, redirectToArg) ==
    LET request == Request(jar[c], pathname)
        outcome == requiredUserId(request, redirectToArg)
    IN /\ Serving
       /\ Deliver(c, outcome)
       /\ last' = Call("requiredUserId", c, request,
                       [NoArgs EXCEPT !.redirectTo = redirectToArg], outcome)
       /\ UNCHANGED <<users, nextId, reg, registered, authIds>>

CreateUserSession(c, userId, redirectTo) ==
    LET outcome == createUserSession(userId, redirectTo)
    IN /\ Serving
       /\ Deliver(c, outcome)
       /\ last' = Call("createUserSession", c, Request(NoCookie, <<"/">>),
                       [NoArgs EXCEPT !.userId = userId, !.redirectTo = Given(redirectTo)],
                       outcome)
       /\ UNCHANGED <<users, nextId, reg, registered, authIds>>

GetUser(c) ==
    LET request == Request(jar[c], <<"/">>)
        outcome == getUser(users, request)
    IN /\ Serving
       /\ Deliver(c, outcome)
       /\ last' = Call("getUser", c, request, NoArgs, outcome)
       /\ UNCHANGED <<users, nextId, reg, registered, authIds>>

Logout(c) ==
    LET request == Request(jar[c], <<"/">>)
        outcome == logout(request)
    IN /\ Serving
       /\ Deliver(c, outcome)
       /\ last' = Call("logout", c, request, NoArgs, outcome)
       /\ UNCHANGED <<users, nextId, reg, registered, authIds>>

\* ------------------------------------------------------- the environment
\* a row is deleted by something outside this module
DeleteUser(id) ==
    /\ \E r \in users : r.id = id
    /\ users' = {r \in users : r.id # id}
    /\ last' = Call("deleteUser", 0, Request(NoCookie, <<"/">>), NoArgs, Return(Undefined))
    /\ registered' = {x \in registered : x[3] # id}
    /\ UNCHANGED <<nextId, jar, reg, authIds, proc>>

\* ------------------------------------------------------- specifications
Next ==
    \/ \E u \in Usernames, pw \in Passwords, s \in Salts : RegisterHash(u, pw, s)
    \/ \E r \in BagToSet(reg) : Register(r)
    \/ \E c \in Clients, u \in Usernames, pw \in Passwords : Login(c, u, pw)
    \/ \E c \in Clients : GetUserId(c)
    \/ \E c \in Clients, path \in Paths : RequiredUserId(c, path, Omitted)
    \/ \E c \in Clients, path \in Paths : RequiredUserId(c, <<"/">>, Given(path))
    \/ \E c \in Clients, id \in UserIdArgs \cup authIds, path \in Paths :
          CreateUserSession(c, id, path)
    \/ \E c \in Clients : GetUser(c)
    \/ \E c \in Clients : Logout(c)

\* the operations of this module alone
Spec == Init /\ [][Next]_vars

NextEnv ==
    \/ Next
    \/ \E id \in UserIdArgs : DeleteUser(id)

\* the module with its environment: rows get deleted
SpecEnv == Init /\ [][NextEnv]_vars

\* ------------------------------------------------- the life of a process
NodeEnvs == {"production", "development"}
\* process.env.SESSION_SECRET: unset, empty, or set
SecretEnvs == {Undefined, Str(""), Str(SessionSecret)}

\* what the evaluation of session.server ends with
LoadOutcome(p) ==
    IF p.session = "failed" THEN Throw(JsError("SESSION_SECRET must be set"))
    ELSE Return(Undefined)

\* the process starts: the server build is loaded, session.server with it
Boot ==
    /\ proc.session = "unloaded"
    /\ proc' = EvalSessionModule(proc)
    /\ last' = Call("boot", 0, Request(NoCookie, <<"/">>), NoArgs, LoadOutcome(proc'))
    /\ UNCHANGED <<users, nextId, jar, reg, registered, authIds>>

\* the development server evaluates the modules again after a change
HotReload ==
    /\ proc.nodeEnv = "development"
    /\ proc.session # "unloaded"
    /\ proc.reloads < MaxReloads
    /\ proc' = [EvalSessionModule(proc) EXCEPT !.reloads = @ + 1]
    /\ last' = Call("reload", 0, Request(NoCookie, <<"/">>), NoArgs, LoadOutcome(proc'))
    /\ UNCHANGED <<users, nextId, jar, reg, registered, authIds>>

InitProc ==
    /\ proc \in {FreshProcess(e, secret) : e \in NodeEnvs, secret \in SecretEnvs}
    /\ users = {}
    /\ nextId = 1
    /\ jar = [c \in Clients |-> NoCookie]
    /\ reg = EmptyBag
    /\ last = Call("none", 0, Request(NoCookie, <<"/">>), NoArgs, Return(Undefined))
    /\ registered = {}
    /\ authIds = {}

NextProc ==
    \/ Boot
    \/ HotReload
    \/ \E c \in Clients : GetUserId(c)
    \/ \E c \in Clients, path \in Paths : RequiredUserId(c, path, Omitted)
    \/ \E c \in Clients, id \in UserIdArgs, path \in Paths : CreateUserSession(c, id, path)
    \/ \E c \in Clients : GetUser(c)
    \/ \E c \in Clients : Logout(c)

\* a process from its start: module load, hot reloads, session operations
SpecProc == InitProc /\ [][NextProc]_vars

\* ------------------------------------------------------ arbitrary requests
Browsers == 1..NumBrowsers

SessionCookie(fields) == SignedCookie([t |-> "object", fields |-> fields], SessionSecret)

\* the Cookie headers a request may carry: none, one whose signature does
\* not verify, and signed ones: an empty session, the empty value that
\* destroySession writes, and sessions whose userId is a string, the empty
\* string, or not a string
CookieSamples ==
    {NoCookie,
     SignedCookie([t |-> "object", fields |-> {<<"userId", Str(NewId(1))>>}], "forged"),
     SessionCookie({}),
     SignedCookie(Str(""), SessionSecret),
     SessionCookie({<<"userId", Str("")>>}),
     SessionCookie({<<"userId", Str(NewId(1))>>}),
     SessionCookie({<<"userId", Str(NewId(2))>>}),
     SessionCookie({<<"userId", Num(7)>>}),
     SessionCookie({<<"userId", Num(0)>>})}

\* the store after n registers: alice, then bob
TableAfter(n) ==
    {UserRow(NewId(i), IF i = 1 THEN "alice" ELSE "bob",
             BcryptHash("pw1", BcryptRounds, "salt1")) : i \in 1..n}

\* the POST of the logout route
LogoutAction(c) ==
    LET request == Request(jar[c], <<"/">>)
        outcome == logoutAction(request)
    IN /\ Serving
       /\ Deliver(c, outcome)
       /\ last' = Call("logoutAction", c, request, NoArgs, outcome)
       /\ UNCHANGED <<users, nextId, reg, registered, authIds>>

\* the GET of the logout route
LogoutLoader(c) ==
    LET request == Request(jar[c], <<"/">>)
        outcome == logoutLoader(request)
    IN /\ Serving
       /\ Deliver(c, outcome)
       /\ last' = Call("logoutLoader", c, request, NoArgs, outcome)
       /\ UNCHANGED <<users, nextId, reg, registered, authIds>>

\* a loaded process with zero or one user, and browsers that hold any of
\* the cookies
InitRequests ==
    /\ proc = EvalSessionModule(FreshProcess("production", Str(SessionSecret)))
    /\ \E n \in {0, 1} :
          /\ users = TableAfter(n)
          /\ nextId = n + 1
          /\ registered = {<<r.username, "pw1", r.id>> : r \in TableAfter(n)}
          /\ authIds = {r.id : r \in TableAfter(n)}
    /\ jar \in [Browsers -> CookieSamples]
    /\ reg = EmptyBag
    /\ last = Call("none", 0, Request(NoCookie, <<"/">>), NoArgs, Return(Undefined))

NextRequests ==
    \/ \E c \in Browsers : GetUserId(c)
    \/ \E c \in Browsers, path \in Paths : RequiredUserId(c, path, Omitted)
    \/ \E c \in Browsers, path \in Paths : RequiredUserId(c, <<"/">>, Given(path))
    \/ \E c \in Browsers, id \in UserIdArgs, path \in Paths : CreateUserSession(c, id, path)
    \/ \E c \in Browsers : GetUser(c)
    \/ \E c \in Browsers : Logout(c)
    \/ \E c \in Browsers : LogoutAction(c)
    \/ \E c \in Browsers : LogoutLoader(c)

\* the session operations and the logout route on arbitrary requests
SpecRequests == InitRequests /\ [][NextRequests]_vars

\* ================================================================ claims
\* the request client c would send now
RequestOf(c) == Request(jar[c], <<"/">>)

\* C1: a login with the username and password of a successful register
\* returns {id, username} with the id that register returned, whatever
\* operations of the module ran in between.
C1_LoginAfterRegister ==
    last.op = "login" =>
        \A x \in registered :
            (x[1] = last.args.username /\ x[2] = last.args.password)
                => last.outcome = Return([t |-> "object", id |-> x[3], username |-> x[1]])

\* a login with registered credentials, after a second user registered and
\* a session was created
C1_Witness ==
    /\ last.op = "login"
    /\ \E x \in registered : x[1] = last.args.username /\ x[2] = last.args.password
    /\ Cardinality(users) = 2
    /\ \E c \in Clients : jar[c] # NoCookie

\* C2: login returns null, and does not throw, when no User has the
\* username and when a User has it but was registered with another password.
C2_InvalidCredentialsNull ==
    last.op = "login" =>
        /\ (~\E r \in users : r.username = last.args.username)
               => last.outcome = Return(Null)
        /\ (\E x \in registered : x[1] = last.args.username /\ x[2] # last.args.password)
               => last.outcome = Return(Null)

\* a login with the username of a User and a password that is not its own
C2_Witness ==
    /\ last.op = "login"
    /\ \E x \in registered : x[1] = last.args.username /\ x[2] # last.args.password
    /\ \E r \in users : r.username = last.args.username

\* the cookie a client holds after it obeys, or replays, a Set-Cookie header
CookiesFrom(header) == {ApplySetCookie(NoCookie, header), header.cookie}

\* C3 as stated: after createUserSession(userId, redirectTo), for every
\* string userId, the empty string included, a request with the cookie of
\* the response yields getUserId = userId.
C3_SessionRoundTripAnyString ==
    last.op = "createUserSession" =>
        getUserId(RequestOf(last.client)) = Return(Str(last.args.userId))

\* C3 amended: after createUserSession(userId, redirectTo) with a userId
\* that is not the empty string, the response is a redirect to redirectTo
\* and a request with its cookie yields getUserId = userId.
C3_SessionRoundTrip ==
    (last.op = "createUserSession" /\ last.args.userId # "") =>
        /\ last.outcome.kind = "return"
        /\ last.outcome.val.t = "response"
        /\ last.outcome.val.status = 302
        /\ last.outcome.val.location = last.args.redirectTo.path
        /\ getUserId(RequestOf(last.client)) = Return(Str(last.args.userId))
        /\ \A cookie \in CookiesFrom(last.outcome.val.setCookie) :
               getUserId(Request(cookie, <<"/">>)) = Return(Str(last.args.userId))

\* a session was created for a non-empty id with a redirectTo that has
\* reserved characters
C3_Witness ==
    /\ last.op = "createUserSession"
    /\ last.args.userId # ""
    /\ last.args.redirectTo.path # <<"/">>
    /\ jar[last.client] # NoCookie

\* C4: logout answers any request, authenticated or not, with a redirect to
\* the bare path /login, and a request with the cookie of that response
\* yields getUserId = null.
C4_LogoutClearsSession ==
    last.op = "logout" =>
        /\ last.outcome.kind = "return"
        /\ last.outcome.val.t = "response"
        /\ last.outcome.val.status = 302
        /\ last.outcome.val.location = LoginPath
        /\ getUserId(RequestOf(last.client)) = Return(Null)
        /\ \A cookie \in CookiesFrom(last.outcome.val.setCookie) :
               getUserId(Request(cookie, <<"/">>)) = Return(Null)

\* a logout of a request that was authenticated
C4_Witness ==
    /\ last.op = "logout"
    /\ getUserId(last.request) # Return(Null)

\* the character a percent escape stands for
Unescape(h1, h2) ==
    CASE <<h1, h2>> = <<"2", "F">> -> "/"
      [] <<h1, h2>> = <<"2", "6">> -> "&"
      [] <<h1, h2>> = <<"2", "5">> -> "%"
      [] <<h1, h2>> = <<"3", "D">> -> "="
      [] <<h1, h2>> = <<"3", "F">> -> "?"
      [] <<h1, h2>> = <<"2", "0">> -> " "
      [] OTHER -> "invalid"

\* the value a reader of the query string gets for its first parameter:
\* it ends at the next "&", "+" is a space, "%XX" is an escape
RECURSIVE FormDecode(_)
FormDecode(q) ==
    IF q = <<>> THEN <<>>
    ELSE IF Head(q) = "&" THEN <<>>
    ELSE IF Head(q) = "+" THEN <<" ">> \o FormDecode(Tail(q))
    ELSE IF Head(q) = "%"
         THEN IF Len(q) >= 3
              THEN <<Unescape(q[2], q[3])>> \o FormDecode(SubSeq(q, 4, Len(q)))
              ELSE <<"invalid">>
    ELSE <<Head(q)>> \o FormDecode(Tail(q))

LoginRedirectPrefix == LoginPath \o <<"?">> \o RedirectToName \o <<"=">>

\* C5: requiredUserId on a request whose session has no userId does not
\* return: it throws a redirect to /login?redirectTo=<p>, where <p> is the
\* URL-encoded redirectTo argument, which defaults to the path of the
\* request URL.
C5_RequireRedirects ==
    (last.op = "requiredUserId"
        /\ SessionGet(getUserSession(last.request), "userId") = Undefined) =>
        /\ last.outcome.kind = "throw"
        /\ last.outcome.val.t = "response"
        /\ last.outcome.val.status = 302
        /\ LET location == last.outcome.val.location
               n == Len(LoginRedirectPrefix)
               redirectTo == IF last.args.redirectTo.given
                             THEN last.args.redirectTo.path
                             ELSE last.request.pathname
           IN /\ Len(location) >= n
              /\ SubSeq(location, 1, n) = LoginRedirectPrefix
              /\ LET p == SubSeq(location, n + 1, Len(location))
                 IN /\ \A i \in 1..Len(p) : p[i] \notin {"/", " ", "?", "&", "="}
                    /\ FormDecode(p) = redirectTo

\* an anonymous request for a path with reserved characters, redirectTo
\* left to its default
C5_Witness ==
    /\ last.op = "requiredUserId"
    /\ SessionGet(getUserSession(last.request), "userId") = Undefined
    /\ ~last.args.redirectTo.given
    /\ last.request.pathname # <<"/">>

\* the ids of the rows the store has created so far, deleted ones included
CreatedIds == {NewId(n) : n \in 1..(nextId - 1)}

\* the session of the request holds the id of no row
Stale(request) ==
    LET userId == SessionGet(getUserSession(request), "userId")
    IN /\ TypeofString(userId)
       /\ userId.s # ""
       /\ ~\E r \in users : r.id = userId.s

\* the row of the session was deleted after the session was created
StaleDeleted(request) ==
    /\ Stale(request)
    /\ SessionGet(getUserSession(request), "userId").s \in CreatedIds

\* the response that logs out: a redirect to the bare path /login whose
\* Set-Cookie makes the session cookie expire
IsLogoutRedirect(v) ==
    /\ v.t = "response"
    /\ v.status = 302
    /\ v.location = LoginPath
    /\ v.setCookie.set
    /\ v.setCookie.expired
    /\ \A cookie \in CookiesFrom(v.setCookie) :
           getUserId(Request(cookie, <<"/">>)) = Return(Null)

C7_StaleSessionCookieCleared ==
    (last.op = "getUser" /\ StaleDeleted(last.request)) =>
        /\ ResponseSent(last.outcome).setCookie.set
        /\ getUserId(RequestOf(last.client)) = Return(Null)

\* C8 as stated: every session with a userId was created while a User with
\* that id existed.
C8_SessionUserExisted ==
    (last.op = "createUserSession" /\ last.args.userId # "") =>
        \E r \in users : r.id = last.args.userId

\* C8 amended: createUserSession stores the userId it is given and does not
\* look at the User store; a session made from an id that register or login
\* returned holds the id of a row that was created before the session.
C8_SessionFromAuthId ==
    (last.op = "createUserSession" /\ last.args.userId \in authIds) =>
        /\ last.args.userId \in CreatedIds
        /\ SessionGet(getUserSession(RequestOf(last.client)), "userId") = Str(last.args.userId)

\* a session was made from an id login or register returned, after the row
\* was deleted
C8_Witness ==
    /\ last.op = "createUserSession"
    /\ last.args.userId \in authIds
    /\ ~\E r \in users : r.id = last.args.userId

\* C9: no two rows have the same username; no username was registered
\* twice; a register whose username is taken throws the error of the store,
\* returns no identity and leaves the store as it was; any other register
\* adds one row.
C9_UsernamesUnique ==
    /\ [](\A r1, r2 \in users : r1.username = r2.username => r1 = r2)
    /\ [](\A x, y \in registered : x[1] = y[1] => x = y)
    /\ [][(last'.op = "register" /\ reg' # reg) =>
            IF \E r \in users : r.username = last'.args.username
            THEN /\ users' = users
                 /\ last'.outcome.kind = "throw"
                 /\ last'.outcome.val.t = "error"
                 /\ registered' = registered
                 /\ authIds' = authIds
            ELSE /\ last'.outcome.kind = "return"
                 /\ \E r \in users' \ users :
                        /\ users' = users \cup {r}
                        /\ r.username = last'.args.username
                        /\ r.id = last'.outcome.val.id]_vars

\* a register failed on a username that is taken, while another register
\* call for the same username is suspended
C9_Witness ==
    /\ last.op = "register"
    /\ last.outcome.kind = "throw"
    /\ \E r \in BagToSet(reg) : r.username = last.args.username

\* the client is authenticated: its next request resolves to a userId
Authenticated(cookie) == getUserId(Request(cookie, <<"/">>)) # Return(Null)

\* C10: register and login set no cookie and leave every client's
\* authentication status as it was, whether they succeed or fail; a client
\* becomes authenticated only by createUserSession.
C10_NoSessionSideEffect ==
    /\ [][last'.op \in {"registerHash", "register", "login"} =>
            /\ jar' = jar
            /\ last'.outcome.val.t # "response"
            /\ ~ResponseSent(last'.outcome).setCookie.set]_vars
    /\ [][\A c \in Clients :
            (~Authenticated(jar[c]) /\ Authenticated(jar'[c]))
                => (last'.op = "createUserSession" /\ last'.client = c)]_vars

\* a login succeeded and its caller is still anonymous
C10_Witness ==
    /\ last.op = "login"
    /\ last.outcome.val.t = "object"
    /\ ~Authenticated(jar[last.client])

\* the steps that may end a client's authentication, as C11 lists them:
\* logout, and getUser on a session whose user has no row
EndsSessionAsClaimed(call) ==
    \/ call.op = "logout"
    \/ (call.op = "getUser" /\ Stale(call.request))

\* the operations C11 says never change the status
KeepsStatus(call) ==
    \/ call.op \in {"getUserId", "requiredUserId", "login", "register", "registerHash"}
    \/ (call.op = "getUser" /\ ~Stale(call.request))

\* C11 as stated: a client becomes authenticated only by createUserSession,
\* stops being authenticated only by logout or by a getUser that finds the
\* user of the session deleted, and getUserId, requiredUserId, login,
\* register and a getUser that finds the user never change the status.
C11_StatusMachine ==
    [][\A c \in Clients :
          /\ (~Authenticated(jar[c]) /\ Authenticated(jar'[c]))
                => (last'.op = "createUserSession" /\ last'.client = c)
          /\ (Authenticated(jar[c]) /\ ~Authenticated(jar'[c]))
                => (EndsSessionAsClaimed(last') /\ last'.client = c)
          /\ KeepsStatus(last') => (Authenticated(jar'[c]) <=> Authenticated(jar[c]))]_vars

\* C11 amended: as C11, but a client also stops being authenticated by a
\* createUserSession with the empty string as userId.
C11_StatusMachineAmended ==
    [][\A c \in Clients :
          /\ (~Authenticated(jar[c]) /\ Authenticated(jar'[c]))
                => (last'.op = "createUserSession" /\ last'.client = c)
          /\ (Authenticated(jar[c]) /\ ~Authenticated(jar'[c]))
                => /\ last'.client = c
                   /\ \/ EndsSessionAsClaimed(last')
                      \/ (last'.op = "createUserSession" /\ last'.args.userId = "")
          /\ KeepsStatus(last') => (Authenticated(jar'[c]) <=> Authenticated(jar[c]))]_vars

\* an authenticated client has logged out and is anonymous
C11_Witness ==
    /\ last.op = "logout"
    /\ Authenticated(last.request.cookie)
    /\ ~Authenticated(jar[last.client])

\* C14: at most one client of the database is ever created in a process,
\* the exported db is that client from the first load on, and in
\* development every evaluation of db.server exports the client kept in
\* global.__db__.
C14_DbSingleton ==
    /\ proc.created <= 1
    /\ proc.session # "unloaded" =>
          /\ proc.created = 1
          /\ proc.db = 1
          /\ proc.nodeEnv = "development" => proc.globalDb = proc.db

\* a development process after two hot reloads
C14_Witness ==
    /\ proc.nodeEnv = "development"
    /\ proc.reloads >= 2
    /\ proc.db = 1

SessionOps == {"getUserId", "requiredUserId", "createUserSession", "getUser", "logout"}

\* C15: with SESSION_SECRET unset or empty the load of the module throws
\* and no session operation is ever served; the error arises when the
\* module is evaluated, never in a call, and a process that loaded the
\* module keeps it loaded.
C15_MissingSecretFatal ==
    /\ [](Falsy(proc.secret) =>
            /\ proc.session # "loaded"
            /\ last.op \notin SessionOps
            /\ proc.session = "failed" => last.outcome.kind = "throw")
    /\ [][last'.op \in SessionOps =>
            (proc.session = "loaded" /\ proc'.session = "loaded" /\ ~Falsy(proc.secret))]_vars
    /\ [][(proc'.session = "failed" /\ proc.session # "failed") => last'.op = "boot"]_vars

\* a process started with an empty SESSION_SECRET has failed to load
C15_Witness ==
    /\ proc.secret = Str("")
    /\ proc.session = "failed"
    /\ last.op = "boot"

\* the userId fields of the session that a Cookie header carries: those of
\* its payload, when the cookie is there, its signature verifies and the
\* payload is an object
UserIdFields(cookie) ==
    IF cookie.present /\ cookie.sig = SessionSecret /\ cookie.payload.t = "object"
    THEN {f \in cookie.payload.fields : f[1] = "userId"}
    ELSE {}

HoldsStringUserId(cookie) == \E f \in UserIdFields(cookie) : f[2].t = "string"

HoldsNonEmptyUserId(cookie) ==
    \E f \in UserIdFields(cookie) : f[2].t = "string" /\ f[2].s # ""

StoredUserId(cookie) == (CHOOSE f \in UserIdFields(cookie) : TRUE)[2]

\* getUser on the request of the last call answers null whatever the store
\* holds
GetUserNullWithoutStore ==
    \A n \in 0..MaxUsers : getUser(TableAfter(n), last.request) = Return(Null)

\* C12 as stated: getUserId returns null when the request has no session
\* cookie (or one whose signature does not verify), or its session has no
\* userId field, or the field is not a string, and otherwise the stored
\* userId; getUser returns null in exactly those cases, whatever the store
\* holds.
C12_NullOnMissingSession ==
    /\ last.op = "getUserId" =>
          last.outcome = IF HoldsStringUserId(last.request.cookie)
                         THEN Return(StoredUserId(last.request.cookie))
                         ELSE Return(Null)
    /\ last.op = "getUser" =>
          /\ last.outcome = Return(Null) <=> getUserId(last.request) = Return(Null)
          /\ last.outcome = Return(Null) => GetUserNullWithoutStore

\* C12, amended: getUserId returns null when the request has no session
\* cookie (or one whose signature does not verify), or its session has no
\* userId field, or the field is not a string, or it is the empty string,
\* and otherwise the stored userId; getUser returns null in exactly those
\* cases, whatever the store holds.
C12_NullOnMissingOrEmpty ==
    /\ last.op = "getUserId" =>
          last.outcome = IF HoldsNonEmptyUserId(last.request.cookie)
                         THEN Return(StoredUserId(last.request.cookie))
                         ELSE Return(Null)
    /\ last.op = "getUser" =>
          /\ last.outcome = Return(Null) <=> ~HoldsNonEmptyUserId(last.request.cookie)
          /\ last.outcome = Return(Null) => GetUserNullWithoutStore

\* getUserId has answered null for a session whose userId is the empty
\* string
C12_Witness ==
    /\ last.op = "getUserId"
    /\ last.outcome = Return(Null)
    /\ HoldsStringUserId(last.request.cookie)
    /\ ~HoldsNonEmptyUserId(last.request.cookie)

\* C16: requiredUserId returns exactly when getUserId on the same request
\* returns a value that is not null, and returns that value; it throws a
\* redirect exactly when getUserId returns null; neither of the two changes
\* the cookie the client holds.
C16_RequireAgreesWithGetUserId ==
    /\ last.op = "requiredUserId" =>
          LET got == getUserId(last.request)
          IN /\ last.outcome.kind = "return" <=> got # Return(Null)
             /\ last.outcome.kind = "return" => last.outcome = got
             /\ got = Return(Null) <=>
                   /\ last.outcome.kind = "throw"
                   /\ last.outcome.val.t = "response"
                   /\ last.outcome.val.status = 302
             /\ jar[last.client] = last.request.cookie
    /\ last.op = "getUserId" =>
          /\ last.outcome.kind = "return"
          /\ jar[last.client] = last.request.cookie

\* requiredUserId has returned the userId of a session
C16_Witness ==
    /\ last.op = "requiredUserId"
    /\ last.outcome.kind = "return"
    /\ last.outcome = getUserId(last.request)
    /\ HoldsNonEmptyUserId(last.request.cookie)

\* C13: every record of the store is kept as it is by every step; register
\* adds at most one record, under an id no record had, and login,
\* getUserId, requiredUserId, createUserSession, getUser and logout leave
\* the store as it was.
C13_UsersNeverMutated ==
    [][/\ \A r \in users : r \in users'
       /\ last'.op = "register" =>
             /\ Cardinality(users' \ users) <= 1
             /\ \A r \in users' \ users : \A q \in users : q.id # r.id
       /\ last'.op \in {"login", "getUserId", "requiredUserId", "createUserSession",
                        "getUser", "logout"} => users' = users]_vars

\* a second register has added its record next to the first
C13_Witness ==
    /\ last.op = "register"
    /\ last.outcome.kind = "return"
    /\ Cardinality(users) = 2

\* the password hashes a row can hold
Hashes == {BcryptHash(password, BcryptRounds, salt) : password \in Passwords, salt \in Salts}

\* the stores that differ from `rows` in nothing but the password hashes
Rehashed(rows) ==
    {{UserRow(r.id, r.username, f[r.id]) : r \in rows} :
         f \in [{r.id : r \in rows} -> Hashes]}

IdentityFields == {"t", "id", "username"}

\* C17: an object that register, login or getUser returns has the fields
\* id and username and no other; the cookies hold a userId and nothing else;
\* and with any other password hashes in the store, getUser and register
\* give the same outcome on every input and login gives the same object
\* whenever it gives an object at all.
C17_PasswordHashConfined ==
    /\ (/\ last.op \in {"register", "login", "getUser"}
        /\ last.outcome.kind = "return"
        /\ last.outcome.val.t = "object") =>
            /\ DOMAIN last.outcome.val = IdentityFields
            /\ last.outcome.val.id \in {r.id : r \in users}
    /\ \A c \in DOMAIN jar :
          (jar[c].present /\ jar[c].payload.t = "object") =>
              jar[c].payload.fields \subseteq {<<"userId", Str(id)>> : id \in UserIdArgs}
    /\ \A alt \in Rehashed(users) :
          /\ \A c \in DOMAIN jar : getUser(alt, RequestOf(c)) = getUser(users, RequestOf(c))
          /\ \A username \in Usernames, hash \in Hashes :
                RegisterCreate(alt, nextId, username, hash).outcome
                    = RegisterCreate(users, nextId, username, hash).outcome
          /\ \A username \in Usernames, password \in Passwords :
                LET here == login(users, username, password)
                    there == login(alt, username, password)
                IN (here # Return(Null) /\ there # Return(Null)) => here = there

\* getUser has returned the user of the session, and login has a password
\* it accepts with the hashes of the store and rejects with others
C17_Witness ==
    /\ last.op = "getUser"
    /\ last.outcome.kind = "return"
    /\ last.outcome.val.t = "object"
    /\ \E alt \in Rehashed(users), password \in Passwords :
          /\ login(users, last.outcome.val.username, password) # Return(Null)
          /\ login(alt, last.outcome.val.username, password) = Return(Null)

C19_OnlyActionEndsSession ==
    /\ last.op = "logoutAction" =>
          /\ ResponseSent(last.outcome) = logout(last.request).val
          /\ IsLogoutRedirect(ResponseSent(last.outcome))
          /\ ~Authenticated(jar[last.client])
    /\ last.op = "logoutLoader" =>
          /\ ResponseSent(last.outcome).status = 302
          /\ ResponseSent(last.outcome).location = LoginPath
          /\ ~ResponseSent(last.outcome).setCookie.set
          /\ jar[last.client] = last.request.cookie
          /\ Authenticated(last.request.cookie) => Authenticated(jar[last.client])

\* an authenticated client has made a GET of the logout route
C19_Witness ==
    /\ last.op = "logoutLoader"
    /\ Authenticated(last.request.cookie)
    /\ Authenticated(jar[last.client])

====
